---- MODULE Spec2Model ----
(***************************************************************************)
(* wrfpyx.wrf2gfs_params: one call of the WRF -> GFS metadata conversion,  *)
(* modelled statement group by statement group, together with the          *)
(* datetime arithmetic (timedelta normalisation, str/strptime/strftime)    *)
(* its time section relies on.                                             *)
(*                                                                         *)
(* Optional values (Python None) are sequences of length 0 or 1:           *)
(* <<>> is None / unbound, <<v>> is the value v.                           *)
(***************************************************************************)
EXTENDS Integers, Sequences, FiniteSets, TLC

(* ------------------------------------------------------------------ *)
(* Bounds of the model                                                 *)
(* ------------------------------------------------------------------ *)

\* grid size (south_north x west_east) of the modelled files
NLat == 2
NLon == 2
\* number of vertical levels (bottom_top) of CLDFRA
NLev == 3
\* largest data seed of a file: the fields of two files differ by their seeds
MaxSeed == 1
\* number of whole days a valid time may lie after the first modelled day
MaxDays == 1

(* ------------------------------------------------------------------ *)
(* datetime arithmetic                                                 *)
(* ------------------------------------------------------------------ *)

\* c.seconds/(60*60), line 127
SecPerHour == 60 * 60
\* delta.days*24, line 158
HoursPerDay == 24
SecPerDay == HoursPerDay * SecPerHour

IsLeap(y) == (y % 4 = 0) /\ ((y % 100 # 0) \/ (y % 400 = 0))

DaysInMonth(y, m) ==
    IF m = 2 THEN (IF IsLeap(y) THEN 29 ELSE 28)
    ELSE IF m \in {4, 6, 9, 11} THEN 30 ELSE 31

RECURSIVE DaysBeforeMonth(_, _)
DaysBeforeMonth(y, m) ==
    IF m = 1 THEN 0 ELSE DaysBeforeMonth(y, m - 1) + DaysInMonth(y, m - 1)

\* days before January 1st of year y, counted from 0001-01-01
DaysBeforeYear(y) ==
    LET p == y - 1 IN p * 365 + (p \div 4) - (p \div 100) + (p \div 400)

\* a datetime is [year, month, day, hour, minute, second]
DateTime(y, m, d, h, mi, s) ==
    [year |-> y, month |-> m, day |-> d, hour |-> h, minute |-> mi, second |-> s]

\* date.toordinal(): 0001-01-01 is day 1
Ordinal(t) == DaysBeforeYear(t.year) + DaysBeforeMonth(t.year, t.month) + t.day

\* seconds since midnight
SecOfDay(t) == t.hour * SecPerHour + t.minute * 60 + t.second

\* datetime - datetime: timedelta(days1 - days2, secs1 - secs2), normalised
\* to 0 <= seconds < 86400 with days taking the sign
TimeDelta(t, u) ==
    LET dd == Ordinal(t) - Ordinal(u)
        ss == SecOfDay(t) - SecOfDay(u)
    IN  [days |-> dd + (ss \div SecPerDay), seconds |-> ss % SecPerDay]

(* ------------------------------------------------------------------ *)
(* Strings: sequences of one-character strings                         *)
(* ------------------------------------------------------------------ *)

DigitChars == <<"0", "1", "2", "3", "4", "5", "6", "7", "8", "9">>

IsDigit(c) == \E d \in 1..10 : DigitChars[d] = c

DigitVal(c) == (CHOOSE d \in 1..10 : DigitChars[d] = c) - 1

\* the character at position i, "" past the end of the string
At(s, i) == IF i \in 1..Len(s) THEN s[i] ELSE ""

\* str(n) for an integer n >= 0: decimal digits, no padding
RECURSIVE IntToStr(_)
IntToStr(n) ==
    IF n < 10 THEN <<DigitChars[n + 1]>>
    ELSE IntToStr(n \div 10) \o <<DigitChars[(n % 10) + 1]>>

\* two-digit zero-padded field of strftime (%m, %d, %H)
Pad2(n) == <<DigitChars[(n \div 10) + 1], DigitChars[(n % 10) + 1]>>

LowerChars == <<"a", "c", "d", "f", "h", "l", "p", "r", "s", "t", "u", "v", "w", "x", "y", "z">>
UpperChars == <<"A", "C", "D", "F", "H", "L", "P", "R", "S", "T", "U", "V", "W", "X", "Y", "Z">>

\* str.upper(): lower-case letters are mapped, every other character is kept
UpperChar(c) ==
    IF \E i \in 1..Len(LowerChars) : LowerChars[i] = c
    THEN UpperChars[CHOOSE i \in 1..Len(LowerChars) : LowerChars[i] = c]
    ELSE c

Upper(s) == [i \in 1..Len(s) |-> UpperChar(s[i])]

(* ------------------------------------------------------------------ *)
(* datetime.strptime(text, '%Y%m%d %H')                                *)
(* The format compiles to the regular expression                       *)
(*   (\d\d\d\d)(1[0-2]|0[1-9]|[1-9])                                   *)
(*   (3[0-1]|[1-2]\d|0[1-9]|[1-9]| [1-9])\s+(2[0-3]|[0-1]\d|\d)        *)
(* matched at the start of the text; the first match in backtracking   *)
(* order is taken, text left over after it is an error, and so is a    *)
(* day the month does not have.                                        *)
(* ------------------------------------------------------------------ *)

NonZeroDigit(c) == IsDigit(c) /\ c # "0"

\* the alternatives of %m that match at position i, numbered in regex order
MonthAlts(s, i) ==
    (IF At(s, i) = "1" /\ At(s, i + 1) \in {"0", "1", "2"}
        THEN {[alt |-> 1, len |-> 2, val |-> 10 + DigitVal(At(s, i + 1))]} ELSE {})
    \cup
    (IF At(s, i) = "0" /\ NonZeroDigit(At(s, i + 1))
        THEN {[alt |-> 2, len |-> 2, val |-> DigitVal(At(s, i + 1))]} ELSE {})
    \cup
    (IF NonZeroDigit(At(s, i))
        THEN {[alt |-> 3, len |-> 1, val |-> DigitVal(At(s, i))]} ELSE {})

\* the alternatives of %d that match at position i
DayAlts(s, i) ==
    (IF At(s, i) = "3" /\ At(s, i + 1) \in {"0", "1"}
        THEN {[alt |-> 1, len |-> 2, val |-> 30 + DigitVal(At(s, i + 1))]} ELSE {})
    \cup
    (IF At(s, i) \in {"1", "2"} /\ IsDigit(At(s, i + 1))
        THEN {[alt |-> 2, len |-> 2,
               val |-> 10 * DigitVal(At(s, i)) + DigitVal(At(s, i + 1))]} ELSE {})
    \cup
    (IF At(s, i) = "0" /\ NonZeroDigit(At(s, i + 1))
        THEN {[alt |-> 3, len |-> 2, val |-> DigitVal(At(s, i + 1))]} ELSE {})
    \cup
    (IF NonZeroDigit(At(s, i))
        THEN {[alt |-> 4, len |-> 1, val |-> DigitVal(At(s, i))]} ELSE {})
    \cup
    (IF At(s, i) = " " /\ NonZeroDigit(At(s, i + 1))
        THEN {[alt |-> 5, len |-> 2, val |-> DigitVal(At(s, i + 1))]} ELSE {})

\* the alternatives of %H that match at position i
HourAlts(s, i) ==
    (IF At(s, i) = "2" /\ At(s, i + 1) \in {"0", "1", "2", "3"}
        THEN {[alt |-> 1, len |-> 2, val |-> 20 + DigitVal(At(s, i + 1))]} ELSE {})
    \cup
    (IF At(s, i) \in {"0", "1"} /\ IsDigit(At(s, i + 1))
        THEN {[alt |-> 2, len |-> 2,
               val |-> 10 * DigitVal(At(s, i)) + DigitVal(At(s, i + 1))]} ELSE {})
    \cup
    (IF IsDigit(At(s, i))
        THEN {[alt |-> 3, len |-> 1, val |-> DigitVal(At(s, i))]} ELSE {})

\* \s+ : the length of the run of blanks starting at position i (a blank is
\* no digit, so %H can only start after the whole run)
RECURSIVE SpaceRun(_, _)
SpaceRun(s, i) == IF At(s, i) = " " THEN 1 + SpaceRun(s, i + 1) ELSE 0

\* the ways %H matches after the blanks that follow position i
HourAfterBlanks(s, i) ==
    IF SpaceRun(s, i) = 0 THEN {}
    ELSE {[h |-> h, end |-> i + SpaceRun(s, i) + h.len - 1] :
            h \in HourAlts(s, i + SpaceRun(s, i))}

\* every way the regular expression matches a prefix of s
StrptimeMatches(s) ==
    IF ~(\A i \in 1..4 : IsDigit(At(s, i))) THEN {}
    ELSE UNION {UNION {
            {[m |-> m, d |-> d, h |-> e.h, end |-> e.end] :
                e \in HourAfterBlanks(s, 5 + m.len + d.len)}
            : d \in DayAlts(s, 5 + m.len)}
            : m \in MonthAlts(s, 5)}

\* backtracking order: earlier alternatives of earlier groups first
MatchRank(p) == p.m.alt * 100 + p.d.alt * 10 + p.h.alt

\* <<datetime>>, or <<>> when strptime raises ValueError
Strptime(s) ==
    LET ms == StrptimeMatches(s) IN
    IF ms = {} THEN <<>>
    ELSE
        LET p == CHOOSE q \in ms : \A r \in ms : MatchRank(q) <= MatchRank(r)
            y == 1000 * DigitVal(s[1]) + 100 * DigitVal(s[2]) + 10 * DigitVal(s[3]) + DigitVal(s[4])
        IN  IF p.end # Len(s) THEN <<>>
            ELSE IF y < 1 \/ p.d.val > DaysInMonth(y, p.m.val) THEN <<>>
            ELSE <<DateTime(y, p.m.val, p.d.val, p.h.val, 0, 0)>>

\* date_sice.strftime('%Y-%m-%dT%H:00:00Z')
Strftime(t) ==
    IntToStr(t.year) \o <<"-">> \o Pad2(t.month) \o <<"-">> \o Pad2(t.day) \o <<"T">>
        \o Pad2(t.hour) \o <<":", "0", "0", ":", "0", "0", "Z">>

(* ------------------------------------------------------------------ *)
(* Source files                                                        *)
(* A file is [vars, Times, START_DATE, seed, lat0, lon0]: the names of *)
(* its data variables, its first Times entry, its START_DATE           *)
(* attribute, and the numbers its arrays are filled from.  Times,      *)
(* START_DATE, XLONG and XLAT are always there (a well-formed file).   *)
(* ------------------------------------------------------------------ *)

FieldNames == <<"U10", "V10", "T2", "PSFC", "Q2", "CLDFRA", "RAINNC", "RAINC", "GLW", "SWDOWN">>

AllFields == {FieldNames[k] : k \in 1..Len(FieldNames)}

FieldNo(name) == CHOOSE k \in 1..Len(FieldNames) : FieldNames[k] = name

Rows == 1..NLat
Cols == 1..NLon

\* nc[name].data[:].squeeze() of a surface field: a south_north x west_east array
FieldData(f, name) ==
    [i \in Rows |-> [j \in Cols |-> f.seed + FieldNo(name) * ((i - 1) * NLon + j)]]

\* nc.CLDFRA: bottom_top x south_north x west_east
CloudData(f) ==
    [k \in 1..NLev |-> [i \in Rows |-> [j \in Cols |->
        f.seed + k * (NLev + 1 - k) + i + j]]]

\* nc['XLONG'].data[:].squeeze(), nc['XLAT'].data[:].squeeze()
XLONG(f) == [i \in Rows |-> [j \in Cols |-> f.lon0 + (j - 1)]]
XLAT(f) == [i \in Rows |-> [j \in Cols |-> f.lat0 + (i - 1)]]

\* the paths of the two files on disk
NowPath == "wrfout_now"
BeforePath == "wrfout_before"

\* the days a modelled valid time may fall on: 2023-12-31, 2024-01-01, ...
ValidDay(k, h) ==
    IF k = 0 THEN DateTime(2023, 12, 31, h, 0, 0) ELSE DateTime(2024, 1, k, h, 0, 0)

\* Times is written by WRF as %Y-%m-%d_%H:00:00: a whole hour
TimesValues == {ValidDay(k, h) : k \in 0..MaxDays, h \in {0, 6}}

StartDates == {DateTime(2023, 12, 31, 0, 0, 0)}

\* which variables a current-step file may lack
MissingSets ==
    SUBSET {"PSFC", "T2", "Q2"}
        \cup {{n} : n \in {"U10", "V10", "CLDFRA", "GLW", "SWDOWN", "RAINNC"}}

NowFiles ==
    {[vars |-> AllFields \ miss, Times |-> t, START_DATE |-> sd, seed |-> sv,
      lat0 |-> 10, lon0 |-> 20] :
        miss \in MissingSets, t \in TimesValues, sd \in StartDates, sv \in 0..MaxSeed}

\* the previous time step's file, on another grid origin
BeforeFiles ==
    {[vars |-> AllFields \ miss, Times |-> ValidDay(0, 0),
      START_DATE |-> DateTime(2023, 12, 31, 0, 0, 0), seed |-> sv,
      lat0 |-> 30, lon0 |-> 40] :
        miss \in {{}, {"RAINC"}}, sv \in 0..MaxSeed}

DefaultBefore == CHOOSE f \in BeforeFiles : f.vars = AllFields /\ f.seed = 0

(* ------------------------------------------------------------------ *)
(* Arguments of a call                                                 *)
(* ------------------------------------------------------------------ *)

VarNames ==
    {<<"u", "1", "0">>, <<"v", "1", "0">>, <<"t", "2">>, <<"r", "h">>, <<"p", "s">>,
     <<"c", "l", "d", "f", "r", "a">>, <<"p", "r">>, <<"l", "w">>, <<"s", "w">>,
     <<"P", "R">>, <<"x", "y", "z">>}

\* the keyword arguments a caller may pass: any of yearsince and step_b
\* years datetime accepts (1..9999), of one, three and four digits
YearArgs == {1, 999, 2024}
StepArgs == {"", BeforePath}

Kwargs ==
    {<<>>} \cup {[yearsince |-> y] : y \in YearArgs} \cup {[step_b |-> p] : p \in StepArgs}
        \cup {[yearsince |-> y, step_b |-> p] : y \in YearArgs, p \in StepArgs}

\* kwargs.get(key, None)
KwGet(kw, key) == IF key \in DOMAIN kw THEN <<kw[key]>> ELSE <<>>

\* Python truth value of an optional integer / an optional string
TruthyInt(o) == o # <<>> /\ o[1] # 0
TruthyStr(o) == o # <<>> /\ o[1] # ""

(* ------------------------------------------------------------------ *)
(* Time section of wrf2gfs_params                                      *)
(* ------------------------------------------------------------------ *)

\* line 127 with c.total_seconds() in place of c.seconds
LeadHoursTotal(b, sd) ==
    [num |-> TimeDelta(b, sd).days * SecPerDay + TimeDelta(b, sd).seconds, den |-> SecPerHour]

\* c = b - start_date; hours = c.seconds/(60*60): the exact quotient num/den
LeadHours(b, sd) == [num |-> TimeDelta(b, sd).seconds, den |-> SecPerHour]

\* yearsice after the if/elif on kwargs.get('yearsince', None)
YearSince(ys, sd) ==
    IF TruthyInt(ys) THEN ys
    ELSE IF ys = <<>> THEN <<sd.year>>
    ELSE ys

\* date_sice = strptime(str(yearsice)+'0101 00','%Y%m%d %H'); <<>> on ValueError
DateSince(yearsice) ==
    Strptime(IntToStr(yearsice[1]) \o <<"0", "1", "0", "1", " ", "0", "0">>)

\* line 158 with the day count truncated toward zero instead of floored
HoursSinceTruncated(b, ds0) ==
    LET d == TimeDelta(b, ds0) IN
    (IF d.days < 0 /\ d.seconds > 0 THEN d.days + 1 ELSE d.days) * HoursPerDay + b.hour

\* delta = b - date_sice; hours_since = delta.days*24 + int(b.hour)
HoursSince(b, ds0) == TimeDelta(b, ds0).days * HoursPerDay + b.hour

HoursSincePrefix == <<"h", "o", "u", "r", "s", " ", "s", "i", "n", "c", "e", " ">>

AttrsTime(ds0) ==
    [units |-> HoursSincePrefix \o Strftime(ds0), calendar |-> "proleptic_gregorian"]

(* ------------------------------------------------------------------ *)
(* Static attribute dictionaries                                       *)
(* ------------------------------------------------------------------ *)

VarAttrs(units, long_name, abbreviation) ==
    [units |-> units, long_name |-> long_name, _FillValue |-> "NaN",
     missing_value |-> "NaN", abbreviation |-> abbreviation]

attrs_ground ==
    [units |-> "m", long_name |-> "Specified height level above ground",
     standard_name |-> "depth", axis |-> "Z", positive |-> "up",
     _CoordinateAxisType |-> "Height", _CoordinateZisPositive |-> "up", datum |-> "ground"]
attrs_lat ==
    [units |-> "degrees_north", _CoordinateAxisType |-> "Lat", axis |-> "Y",
     standard_name |-> "latitude"]
attrs_lon ==
    [units |-> "degrees_east", _CoordinateAxisType |-> "Lon", axis |-> "X",
     standard_name |-> "longitude"]
attrs_u ==
    [units |-> "meter_second-1",
     long_name |-> "u-component of wind @ Specified height level above ground",
     standard_name |-> "x_wind", _FillValue |-> "NaN", missing_value |-> "NaN",
     abbreviation |-> "UGRD"]
attrs_v ==
    [units |-> "meter_second-1",
     long_name |-> "v-component of wind @ Specified height level above ground",
     standard_name |-> "y_wind", _FillValue |-> "NaN", missing_value |-> "NaN",
     abbreviation |-> "VGRD"]
attrs_t2 ==
    VarAttrs("Celsius", "Temperature @ Specified height level above ground", "TMP")
attrs_rh ==
    VarAttrs("percentage", "Relative humidity @ Specified height level above ground", "RH")
attrs_ps == VarAttrs("millibar", "Pressure @ Ground or water surface", "PRES")
attrs_cl == VarAttrs("nondimensional", "Total cloud cover @ Entire atmosphere", "TCDC")
attrs_pr ==
    VarAttrs("kilogram_meter-2_second-1", "Precipitation rate @ Ground or water surface",
             "PRATE")
attrs_lw ==
    VarAttrs("watt_meter-2",
             "Downward Long-Wave Rad. Flux (Mixed_intervals Average) @ Ground or water surface",
             "DLWRF")
attrs_sw ==
    VarAttrs("watt_meter-2",
             "Downward Short-Wave Radiation Flux (Mixed_intervals Average) @ Ground or water surface",
             "DSWRF")

(* ------------------------------------------------------------------ *)
(* Datasets                                                            *)
(* A dataset is [vars, time, height, lat, lon]: its data variables and *)
(* its coordinates, each coordinate <<>> when the dataset has none.    *)
(* A data variable holds integers `values` over `scale`: the number    *)
(* values[i][j] / scale.                                               *)
(* ------------------------------------------------------------------ *)

\* xr.Dataset()
EmptyDataset == [vars |-> {}, time |-> <<>>, height |-> <<>>, lat |-> <<>>, lon |-> <<>>]

Coord(values, attrs) == <<[values |-> values, attrs |-> attrs]>>

\* xr.Dataset({name: (("time", "lat", "lon"), ncvar[np.newaxis,:,:], attrs)}, coords=...)
Dataset3(name, values, scale, attrs, hs, at, la, lo) ==
    [vars |-> {[name |-> name, dims |-> <<"time", "lat", "lon">>,
                values |-> values, scale |-> scale, attrs |-> attrs]},
     time |-> Coord(<<hs>>, at), height |-> <<>>,
     lat |-> Coord(la, attrs_lat), lon |-> Coord(lo, attrs_lon)]

\* the same with the height_above_ground2 dimension of the wind components
Dataset4(name, values, scale, attrs, hs, at, la, lo) ==
    [vars |-> {[name |-> name, dims |-> <<"time", "height_above_ground2", "lat", "lon">>,
                values |-> values, scale |-> scale, attrs |-> attrs]},
     time |-> Coord(<<hs>>, at), height |-> Coord(<<10>>, attrs_ground),
     lat |-> Coord(la, attrs_lat), lon |-> Coord(lo, attrs_lon)]

\* the names of a dataset's data variables and of its coordinates
DataVars(d) == {v.name : v \in d.vars}
Coords(d) ==
    {c \in {"time", "height_above_ground2", "lat", "lon"} :
        \/ c = "time" /\ d.time # <<>>
        \/ c = "height_above_ground2" /\ d.height # <<>>
        \/ c = "lat" /\ d.lat # <<>>
        \/ c = "lon" /\ d.lon # <<>>}

IsEmpty(d) == DataVars(d) = {} /\ Coords(d) = {}

\* elementwise arithmetic on south_north x west_east arrays
ArrAdd(x, y) == [i \in Rows |-> [j \in Cols |-> x[i][j] + y[i][j]]]
ArrSub(x, y) == [i \in Rows |-> [j \in Cols |-> x[i][j] - y[i][j]]]
ArrScale(x, k) == [i \in Rows |-> [j \in Cols |-> x[i][j] * k]]
ArrShift(x, k) == [i \in Rows |-> [j \in Cols |-> x[i][j] + k]]

Max(S) == CHOOSE m \in S : \A n \in S : n <= m

\* nc.CLDFRA.max(dim='bottom_top')
MaxOverLevels(c) == [i \in Rows |-> [j \in Cols |-> Max({c[k][i][j] : k \in 1..NLev})]]

(* ------------------------------------------------------------------ *)
(* State of one call                                                   *)
(* ------------------------------------------------------------------ *)

VARIABLES
    pc,           \* position in wrf2gfs_params: "idle", a line label, "returned", "raised"
    files,        \* the files on disk: path -> file
    namefile,     \* argument: path of the current-step file
    varname,      \* argument: the variable key as given
    kwargs,       \* argument: the keyword arguments
    open,         \* paths of the datasets opened and not closed
    nc,           \* the path of the dataset the local name nc is bound to
    b,            \* valid time parsed from Times
    start_date,   \* parsed START_DATE
    hours,        \* c.seconds/(60*60)
    yearsice,     \* <<>> is None
    date_sice,
    lon, lat,
    hours_since,
    attrs_time,
    var,          \* varname.upper()
    ncvar_now,    \* RAINNC + RAINC of the current file (PR with hours > 0)
    ds,           \* <<>> while the local name ds is unbound
    stdout,       \* what was printed: a sequence of [msg, items]
    result,       \* <<dataset>> once the call has returned
    err,          \* the exception that left the call, "" if none
    probe         \* state of the time-arithmetic specification TimeSpec

args == <<files, namefile, varname, kwargs>>
timeLocals == <<b, start_date, hours, yearsice, date_sice>>
coordLocals == <<lon, lat, hours_since, attrs_time, var>>
vars ==
    <<pc, files, namefile, varname, kwargs, open, nc, b, start_date, hours, yearsice,
      date_sice, lon, lat, hours_since, attrs_time, var, ncvar_now, ds, stdout, result,
      err, probe>>

NoTime == DateTime(1, 1, 1, 0, 0, 0)
NoArray == [i \in Rows |-> [j \in Cols |-> 0]]
NoProbe == [stage |-> "off"]

CallInit ==
    /\ pc = "idle"
    /\ files = [p \in {NowPath, BeforePath} |->
                    IF p = NowPath THEN CHOOSE f \in NowFiles : TRUE ELSE DefaultBefore]
    /\ namefile = NowPath
    /\ varname = <<>>
    /\ kwargs = <<>>
    /\ open = {}
    /\ nc = ""
    /\ b = NoTime
    /\ start_date = NoTime
    /\ hours = [num |-> 0, den |-> SecPerHour]
    /\ yearsice = <<>>
    /\ date_sice = NoTime
    /\ lon = <<>>
    /\ lat = <<>>
    /\ hours_since = 0
    /\ attrs_time = [units |-> <<>>, calendar |-> ""]
    /\ var = <<>>
    /\ ncvar_now = NoArray
    /\ ds = <<>>
    /\ stdout = <<>>
    /\ result = <<>>
    /\ err = ""

Init == CallInit /\ probe = NoProbe

Say(msg, items) == stdout' = Append(stdout, [msg |-> msg, items |-> items])

\* an exception leaves the function: nothing is returned
Raise(e) ==
    /\ pc' = "raised"
    /\ err' = e
    /\ UNCHANGED <<args, open, nc, timeLocals, coordLocals, ncvar_now, ds, stdout, result, probe>>

\* a lookup that yields zeros for a variable the file lacks instead of raising
FetchLenient(f, name) == IF name \in f.vars THEN <<FieldData(f, name)>> ELSE <<NoArray>>

\* nc[name].data[:].squeeze(): <<array>>, or <<>> when the lookup raises KeyError
Fetch(f, name) == IF name \in f.vars THEN <<FieldData(f, name)>> ELSE <<>>

\* line 107, with the arguments of the call and the files it finds on disk
Call ==
    /\ pc = "idle"
    /\ \E now \in NowFiles, before \in BeforeFiles, v \in VarNames, kw \in Kwargs :
        /\ KwGet(kw, "step_b") # <<BeforePath>> => before = DefaultBefore
        /\ files' = [p \in {NowPath, BeforePath} |-> IF p = NowPath THEN now ELSE before]
        /\ varname' = v
        /\ kwargs' = kw
    /\ nc' = namefile
    /\ open' = open \cup {namefile}
    /\ pc' = "L123"
    /\ UNCHANGED <<namefile, timeLocals, coordLocals, ncvar_now, ds, stdout, result, err, probe>>

\* lines 123-127
ReadTime ==
    /\ pc = "L123"
    /\ b' = files[nc].Times
    /\ start_date' = files[nc].START_DATE
    /\ hours' = LeadHours(files[nc].Times, files[nc].START_DATE)
    /\ pc' = "L130"
    /\ UNCHANGED <<args, open, nc, yearsice, date_sice, coordLocals, ncvar_now, ds, stdout,
                   result, err, probe>>

\* lines 130-147
SetEpoch ==
    /\ pc = "L130"
    /\ LET given == KwGet(kwargs, "yearsince")
           ys == YearSince(given, start_date)
           since == DateSince(ys)
       IN  /\ yearsice' = ys
           /\ IF TruthyInt(given)
                THEN Say("* Times units variable was set by user  -> yearsince:", ys)
                ELSE stdout' = stdout
           /\ IF since = <<>>
                THEN /\ pc' = "raised"
                     /\ err' = "ValueError"
                     /\ date_sice' = date_sice
                ELSE /\ pc' = "L148"
                     /\ err' = err
                     /\ date_sice' = since[1]
    /\ UNCHANGED <<args, open, nc, b, start_date, hours, coordLocals, ncvar_now, ds, result,
                   probe>>

\* lines 148-171 and 299
ReadCoords ==
    /\ pc = "L148"
    /\ lon' = XLONG(files[nc])[1]
    /\ lat' = [i \in Rows |-> XLAT(files[nc])[i][1]]
    /\ hours_since' = HoursSince(b, date_sice)
    /\ attrs_time' = AttrsTime(date_sice)
    /\ var' = Upper(varname)
    /\ pc' = "L312"
    /\ UNCHANGED <<args, open, nc, timeLocals, ncvar_now, ds, stdout, result, err, probe>>

(* ------------------------------------------------------------------ *)
(* The if/elif chain on var, lines 312-569                             *)
(* ------------------------------------------------------------------ *)

U10 == <<"U", "1", "0">>
V10 == <<"V", "1", "0">>
T2 == <<"T", "2">>
RH == <<"R", "H">>
PS == <<"P", "S">>
CLDFRA == <<"C", "L", "D", "F", "R", "A">>
PR == <<"P", "R">>
LW == <<"L", "W">>
SW == <<"S", "W">>

Keys == {U10, V10, T2, RH, PS, CLDFRA, PR, LW, SW}

\* a branch binds ds and falls to the return statement
Bind(d) ==
    /\ ds' = <<d>>
    /\ pc' = "L574"
    /\ UNCHANGED <<args, open, nc, timeLocals, coordLocals, ncvar_now, stdout, result, err,
                   probe>>

\* a branch that reads one field: KeyError when the file lacks it
ReadOne(x, d) == IF x = <<>> THEN Raise("KeyError") ELSE Bind(d)

\* lines 312-326
BranchU10 ==
    /\ pc = "L312" /\ var = U10
    /\ LET x == Fetch(files[nc], "U10") IN
        ReadOne(x, Dataset4("Uwind", x[1], 1, attrs_u, hours_since, attrs_time, lat, lon))

\* lines 334-348
BranchV10 ==
    /\ pc = "L312" /\ var = V10
    /\ LET x == Fetch(files[nc], "V10") IN
        ReadOne(x, Dataset4("Vwind", x[1], 1, attrs_v, hours_since, attrs_time, lat, lon))

\* lines 356-369: ncvar - 273.15, held in hundredths
BranchT2 ==
    /\ pc = "L312" /\ var = T2
    /\ LET x == Fetch(files[nc], "T2") IN
        ReadOne(x, Dataset3("Tair", ArrShift(ArrScale(x[1], 100), -27315), 100, attrs_t2,
                            hours_since, attrs_time, lat, lon))

\* not_key of lines 380-389: the elements of var_elements the file lacks, in order
NotKey(f) == SelectSeq(<<"PSFC", "T2", "Q2">>, LAMBDA n : n \notin f.vars)

\* counter of lines 383-389
Counter(f) == Cardinality({n \in {"PSFC", "T2", "Q2"} : n \in f.vars})

\* lines 394-399: metpy's relative_humidity_from_specific_humidity, left uninterpreted
RelHum(f) ==
    [fn |-> "relative_humidity_from_specific_humidity.to(percent)",
     hPa |-> [values |-> FieldData(f, "PSFC"), scale |-> 100],
     degC |-> [values |-> ArrShift(ArrScale(FieldData(f, "T2"), 100), -27315), scale |-> 100],
     q |-> FieldData(f, "Q2")]

\* lines 377-418: the else arm prints and binds nothing
BranchRH ==
    /\ pc = "L312" /\ var = RH
    /\ IF Counter(files[nc]) = 3
        THEN Bind(Dataset3("Qair", RelHum(files[nc]), 1, attrs_rh, hours_since, attrs_time,
                           lat, lon))
        ELSE /\ Say("not all variables available", NotKey(files[nc]))
             /\ pc' = "L574"
             /\ UNCHANGED <<args, open, nc, timeLocals, coordLocals, ncvar_now, ds, result,
                            err, probe>>

\* lines 426-439: PSFC/100, held in hundredths
BranchPS ==
    /\ pc = "L312" /\ var = PS
    /\ LET x == Fetch(files[nc], "PSFC") IN
        ReadOne(x, Dataset3("Pair", x[1], 100, attrs_ps, hours_since, attrs_time, lat, lon))

\* lines 447-462: nc.CLDFRA raises AttributeError when the file lacks it
BranchCLDFRA ==
    /\ pc = "L312" /\ var = CLDFRA
    /\ IF Fetch(files[nc], "CLDFRA") = <<>>
        THEN Raise("AttributeError")
        ELSE Bind(Dataset3("cloud", MaxOverLevels(CloudData(files[nc])), 1, attrs_cl,
                           hours_since, attrs_time, lat, lon))

\* lines 518-531
BranchLW ==
    /\ pc = "L312" /\ var = LW
    /\ LET x == Fetch(files[nc], "GLW") IN
        ReadOne(x, Dataset3("lwrad_down", x[1], 1, attrs_lw, hours_since, attrs_time, lat, lon))

\* lines 539-552
BranchSW ==
    /\ pc = "L312" /\ var = SW
    /\ LET x == Fetch(files[nc], "SWDOWN") IN
        ReadOne(x, Dataset3("swrad", x[1], 1, attrs_sw, hours_since, attrs_time, lat, lon))

(* ------------------------------------------------------------------ *)
(* PR, lines 470-510                                                   *)
(* ------------------------------------------------------------------ *)

\* rainnc + rainc of a file: <<array>>, or <<>> when a lookup raises KeyError
RainSum(f) ==
    IF Fetch(f, "RAINNC") = <<>> \/ Fetch(f, "RAINC") = <<>> THEN <<>>
    ELSE <<ArrAdd(Fetch(f, "RAINNC")[1], Fetch(f, "RAINC")[1])>>

\* line 490 with the operands exchanged
RainDiffSwapped(now, before) == ArrSub(before, now)

\* line 490
RainDiff(now, before) == ArrSub(now, before)

\* the arm of line 503 without its line 510: ds stays unbound, as in the RH arm
MissingStepBUnbound == <<>>

\* line 510: what the elif step_b == None arm binds ds to
MissingStepB == <<EmptyDataset>>

RainDataset(values) ==
    Dataset3("rain", values, 1, attrs_pr, hours_since, attrs_time, lat, lon)

\* lines 475-480 and 492-501: step_b is true and hours == 0
BranchPRZero ==
    /\ pc = "L312" /\ var = PR
    /\ TruthyStr(KwGet(kwargs, "step_b"))
    /\ hours.num = 0
    /\ LET x == RainSum(files[nc]) IN ReadOne(x, RainDataset(x[1]))

\* lines 481-486: step_b is true and hours > 0; nc is rebound to the prior-step
\* dataset, the current-step dataset is not closed
BranchPRNow ==
    /\ pc = "L312" /\ var = PR
    /\ TruthyStr(KwGet(kwargs, "step_b"))
    /\ hours.num > 0
    /\ LET x == RainSum(files[nc]) IN
        IF x = <<>> THEN Raise("KeyError")
        ELSE /\ ncvar_now' = x[1]
             /\ nc' = KwGet(kwargs, "step_b")[1]
             /\ open' = open \cup {KwGet(kwargs, "step_b")[1]}
             /\ pc' = "L487"
             /\ UNCHANGED <<args, timeLocals, coordLocals, ds, stdout, result, err, probe>>

\* lines 487-501
BranchPRBefore ==
    /\ pc = "L487"
    /\ LET x == RainSum(files[nc]) IN ReadOne(x, RainDataset(RainDiff(ncvar_now, x[1])))

\* lines 503-510: step_b is None
BranchPRNoStepB ==
    /\ pc = "L312" /\ var = PR
    /\ ~TruthyStr(KwGet(kwargs, "step_b"))
    /\ KwGet(kwargs, "step_b") = <<>>
    /\ Say("must be defined step_b", <<>>)
    /\ ds' = MissingStepB
    /\ pc' = "L574"
    /\ UNCHANGED <<args, open, nc, timeLocals, coordLocals, ncvar_now, result, err, probe>>

\* step_b is neither true nor None (an empty string): neither arm runs
BranchPRNeither ==
    /\ pc = "L312" /\ var = PR
    /\ ~TruthyStr(KwGet(kwargs, "step_b"))
    /\ KwGet(kwargs, "step_b") # <<>>
    /\ pc' = "L574"
    /\ UNCHANGED <<args, open, nc, timeLocals, coordLocals, ncvar_now, ds, stdout, result,
                   err, probe>>

(* ------------------------------------------------------------------ *)
(* The last arm and the return                                         *)
(* ------------------------------------------------------------------ *)

\* line 560, var == []: var is a str and [] is a list, and a str never equals a list
EqualsEmptyList(v) == FALSE

\* lines 560-569: no key matched; the arm under var == [] would print and bind
\* ds to an empty dataset
NoBranch ==
    /\ pc = "L312" /\ var \notin Keys
    /\ IF EqualsEmptyList(var)
        THEN /\ Say("Not a valid variable", var)
             /\ ds' = <<EmptyDataset>>
        ELSE UNCHANGED <<ds, stdout>>
    /\ pc' = "L574"
    /\ UNCHANGED <<args, open, nc, timeLocals, coordLocals, ncvar_now, result, err, probe>>

\* line 574: return ds; UnboundLocalError when no arm bound ds
Return ==
    /\ pc = "L574"
    /\ IF ds = <<>>
        THEN Raise("UnboundLocalError")
        ELSE /\ result' = ds
             /\ pc' = "returned"
             /\ UNCHANGED <<args, open, nc, timeLocals, coordLocals, ncvar_now, ds, stdout,
                            err, probe>>

Next ==
    \/ Call \/ ReadTime \/ SetEpoch \/ ReadCoords
    \/ BranchU10 \/ BranchV10 \/ BranchT2 \/ BranchRH \/ BranchPS \/ BranchCLDFRA
    \/ BranchPRZero \/ BranchPRNow \/ BranchPRBefore \/ BranchPRNoStepB \/ BranchPRNeither
    \/ BranchLW \/ BranchSW \/ NoBranch \/ Return

Spec == Init /\ [][Next]_vars

(* ------------------------------------------------------------------ *)
(* The time arithmetic on its own: lines 126-127, 130-147 and 157-158  *)
(* applied to two valid times t1, t2 of files with the same START_DATE *)
(* and the same yearsince argument.                                    *)
(* ------------------------------------------------------------------ *)

ProbeTimes == {ValidDay(k, h) : k \in 0..(MaxDays + 1), h \in {0, 6, 23}}

ProbeStarts ==
    {DateTime(2023, 12, 31, 0, 0, 0), DateTime(2023, 12, 31, 6, 0, 0),
     DateTime(2023, 12, 31, 12, 30, 15)}

ProbeYears == {<<>>, <<1>>, <<999>>, <<2024>>, <<2025>>}

NoLead == [num |-> 0, den |-> SecPerHour]

ProbeInit ==
    /\ CallInit
    /\ probe \in
        [stage : {"in"}, t1 : ProbeTimes, t2 : ProbeTimes, sd : ProbeStarts, ys : ProbeYears,
         hours1 : {NoLead}, hours2 : {NoLead}, date_sice : {NoTime},
         hours_since1 : {0}, hours_since2 : {0}]

CallIdle ==
    UNCHANGED <<pc, args, open, nc, timeLocals, coordLocals, ncvar_now, ds, stdout, result, err>>

\* lines 126-127
ProbeLead ==
    /\ probe.stage = "in"
    /\ probe' = [probe EXCEPT !.stage = "lead",
                              !.hours1 = LeadHours(probe.t1, probe.sd),
                              !.hours2 = LeadHours(probe.t2, probe.sd)]
    /\ CallIdle

\* lines 130-147
ProbeEpoch ==
    /\ probe.stage = "lead"
    /\ LET since == DateSince(YearSince(probe.ys, probe.sd)) IN
        probe' = IF since = <<>> THEN [probe EXCEPT !.stage = "ValueError"]
                 ELSE [probe EXCEPT !.stage = "epoch", !.date_sice = since[1]]
    /\ CallIdle

\* lines 157-158
ProbeHoursSince ==
    /\ probe.stage = "epoch"
    /\ probe' = [probe EXCEPT !.stage = "done",
                              !.hours_since1 = HoursSince(probe.t1, probe.date_sice),
                              !.hours_since2 = HoursSince(probe.t2, probe.date_sice)]
    /\ CallIdle

TimeNext == ProbeLead \/ ProbeEpoch \/ ProbeHoursSince

TimeSpec == ProbeInit /\ [][TimeNext]_vars

(* ------------------------------------------------------------------ *)
(* Properties                                                          *)
(* ------------------------------------------------------------------ *)

\* the call has ended, and not in the time section (strptime of line 147)
Ended == pc \in {"returned", "raised"} /\ err # "ValueError"

NowFile == files[NowPath]
BeforeFile == files[BeforePath]
StepB == KwGet(kwargs, "step_b")

\* the items of the last line printed with the message msg, {} if none was
Diagnosed(msg) ==
    {n \in AllFields : \E k \in 1..Len(stdout) :
        /\ stdout[k].msg = msg
        /\ \E q \in 1..Len(stdout[k].items) : stdout[k].items[q] = n}

Said(msg) == \E k \in 1..Len(stdout) : stdout[k].msg = msg

\* C1: for a key that, uppercased, is none of U10, V10, T2, RH, PS, CLDFRA, PR, LW,
\* SW, the call returns normally with an empty dataset (no variables, no
\* coordinates) and never raises.
C1_UnknownKeyEmpty ==
    (Ended /\ Upper(varname) \notin Keys)
        => (pc = "returned" /\ IsEmpty(result[1]))

\* C2: for key RH, with PSFC, T2 and Q2 all present the call returns a dataset whose
\* single data variable is Qair; with some of them absent it returns normally with an
\* empty dataset and the diagnostic lists exactly the absent fields.
C2_RelativeHumidity ==
    (Ended /\ Upper(varname) = RH)
        => LET absent == {"PSFC", "T2", "Q2"} \ NowFile.vars IN
            /\ pc = "returned"
            /\ absent = {} => DataVars(result[1]) = {"Qair"}
            /\ absent # {} =>
                (IsEmpty(result[1]) /\ Diagnosed("not all variables available") = absent)

\* C3: for key PR with lead_hours = 0 the call returns a dataset whose rain field is
\* RAINNC + RAINC of the current file, elementwise, both with a prior-step path
\* supplied (never opened) and with none supplied.
C3_RainAtLeadZero ==
    (/\ Ended /\ Upper(varname) = PR /\ hours.num = 0
     /\ StepB \in {<<>>, <<BeforePath>>}
     /\ {"RAINNC", "RAINC"} \subseteq NowFile.vars)
        => /\ pc = "returned"
           /\ DataVars(result[1]) = {"rain"}
           /\ \A v \in result[1].vars :
                v.values = ArrAdd(FieldData(NowFile, "RAINNC"), FieldData(NowFile, "RAINC"))
           /\ BeforePath \notin open

\* C4: on every exit path of a call (a dataset returned, an error raised) every file
\* the call opened has been released: no handle is open once the call has ended.
C4_HandlesReleased ==
    pc \in {"returned", "raised"} => open = {}

\* the case of C5: PR, a lead time above zero, a prior-step file that has both rain fields
C5_Case ==
    /\ Ended /\ Upper(varname) = PR /\ hours.num > 0
    /\ StepB = <<BeforePath>>
    /\ {"RAINNC", "RAINC"} \subseteq NowFile.vars
    /\ {"RAINNC", "RAINC"} \subseteq BeforeFile.vars

\* C5: for key PR with lead_hours > 0 and a valid prior-step path, the call returns a
\* dataset whose rain field is (RAINNC + RAINC) of the current file minus
\* (RAINNC + RAINC) of the prior-step file, elementwise, with time, lat and lon taken
\* from the current file.
C5_RainDifference ==
    C5_Case
        => /\ pc = "returned"
           /\ DataVars(result[1]) = {"rain"}
           /\ \A v \in result[1].vars :
                \A i \in Rows, j \in Cols :
                    v.values[i][j] =
                        (FieldData(NowFile, "RAINNC")[i][j] + FieldData(NowFile, "RAINC")[i][j])
                        - (FieldData(BeforeFile, "RAINNC")[i][j]
                            + FieldData(BeforeFile, "RAINC")[i][j])
           /\ result[1].time[1].values = <<HoursSince(NowFile.Times, date_sice)>>
           /\ result[1].lat[1].values = [i \in Rows |-> XLAT(NowFile)[i][1]]
           /\ result[1].lon[1].values = XLONG(NowFile)[1]

\* a call of the case of C5 has returned, the two files holding different rain
C5_Witness ==
    /\ C5_Case /\ pc = "returned"
    /\ NowFile.seed # BeforeFile.seed
    /\ BeforePath \in open

\* the case of C6: PR, a lead time above zero, no prior-step path
C6_Case ==
    /\ Ended /\ Upper(varname) = PR /\ hours.num > 0
    /\ StepB = <<>>

\* C6: for key PR with lead_hours > 0 and no prior-step path, the call returns
\* normally with an empty dataset and reports a configuration error; no
\* precipitation field is produced.
C6_NoPriorStepEmpty ==
    C6_Case
        => /\ pc = "returned"
           /\ IsEmpty(result[1])
           /\ "rain" \notin DataVars(result[1])
           /\ Said("must be defined step_b")
           /\ BeforePath \notin open

C6_Witness == C6_Case /\ pc = "returned" /\ hours.num = 6 * SecPerHour

\* the source field each single-field key reads
Required(k) ==
    CASE k = U10 -> "U10" [] k = V10 -> "V10" [] k = T2 -> "T2" [] k = PS -> "PSFC"
      [] k = CLDFRA -> "CLDFRA" [] k = LW -> "GLW" [] k = SW -> "SWDOWN"

SingleFieldKeys == {U10, V10, T2, PS, CLDFRA, LW, SW}

\* the case of C7: the dispatch of a single-field key whose field the file lacks is over
C7_Case ==
    /\ pc \in {"L574", "returned", "raised"} /\ err # "ValueError"
    /\ Upper(varname) \in SingleFieldKeys
    /\ Required(Upper(varname)) \notin NowFile.vars

\* C7: for keys U10, V10, T2, PS, CLDFRA, LW and SW, when the required source field
\* is absent the call aborts with an error propagated to the caller and returns no
\* dataset, neither a populated nor an empty one.
C7_MissingFieldAborts ==
    C7_Case
        => /\ pc = "raised"
           /\ err \in {"KeyError", "AttributeError"}
           /\ ds = <<>>
           /\ result = <<>>

C7_Witness == C7_Case /\ pc = "raised" /\ Upper(varname) = CLDFRA /\ err = "AttributeError"

Pad4(n) == Pad2(n \div 100) \o Pad2(n % 100)

\* C8: the reference epoch is January 1st 00:00 of the yearsince argument whenever
\* the caller supplies one, and of the start date's year otherwise; the time units
\* are "hours since " followed by that epoch, and the time value counts the hours
\* from that epoch.
C8_ReferenceEpoch ==
    LET given == KwGet(kwargs, "yearsince")
        year == IF given # <<>> THEN given[1] ELSE start_date.year
        epoch == DateTime(year, 1, 1, 0, 0, 0)
    IN  /\ pc \notin {"idle", "L123", "L130"} => (err # "ValueError" /\ date_sice = epoch)
        /\ pc \in {"L312", "L487", "L574", "returned"} =>
            /\ attrs_time.units =
                HoursSincePrefix \o Pad4(year)
                    \o <<"-", "0", "1", "-", "0", "1", "T", "0", "0", ":", "0", "0", ":", "0", "0", "Z">>
            /\ hours_since = (Ordinal(b) - Ordinal(epoch)) * 24 + b.hour

\* t is not later than u
NotAfter(t, u) ==
    \/ Ordinal(t) < Ordinal(u)
    \/ Ordinal(t) = Ordinal(u) /\ SecOfDay(t) <= SecOfDay(u)

\* C9: for a fixed reference epoch hours_since_epoch is non-decreasing in the valid
\* time: t1 <= t2 implies hours_since_epoch(t1) <= hours_since_epoch(t2), before and
\* after the epoch.
C9_HoursSinceMonotone ==
    (probe.stage = "done" /\ NotAfter(probe.t1, probe.t2))
        => probe.hours_since1 <= probe.hours_since2

\* two times on either side of the epoch, hours apart, have been converted
C9_Witness ==
    /\ probe.stage = "done"
    /\ NotAfter(probe.t1, probe.t2) /\ probe.t1 # probe.t2
    /\ probe.hours_since1 < 0 /\ probe.hours_since2 > 0

\* lead = num/den hours is the sub-day remainder of t - sd: t = sd + n days + num
\* seconds for a whole n >= 0, with 0 <= num < one day
IsSubDayRemainder(lead, t, sd) ==
    /\ lead.den = SecPerHour
    /\ lead.num \in 0..(SecPerDay - 1)
    /\ \E n \in 0..(Ordinal(t) - Ordinal(sd)) :
        (Ordinal(t) - Ordinal(sd) - n) * SecPerDay + SecOfDay(t) - SecOfDay(sd) = lead.num

ProbeLeadDone == probe.stage \in {"lead", "epoch", "done", "ValueError"}

\* C10: for T >= S lead_hours is the sub-day remainder of T - S in hours, whatever
\* the number of full days elapsed: adding whole days to T leaves it unchanged, and
\* it is 0 exactly when T - S is a whole number of days and above 0 otherwise.
C10_LeadHoursSubDay ==
    ProbeLeadDone =>
        /\ NotAfter(probe.sd, probe.t1) =>
            /\ IsSubDayRemainder(probe.hours1, probe.t1, probe.sd)
            /\ probe.hours1.num = 0 <=> SecOfDay(probe.t1) = SecOfDay(probe.sd)
            /\ probe.hours1.num >= 0
        /\ (/\ NotAfter(probe.sd, probe.t1) /\ NotAfter(probe.sd, probe.t2)
            /\ SecOfDay(probe.t1) = SecOfDay(probe.t2))
                => probe.hours1 = probe.hours2

\* lead times of two valid times a whole number of days apart, one day or more
\* after the start date
C10_Witness ==
    /\ ProbeLeadDone
    /\ NotAfter(probe.sd, probe.t1)
    /\ Ordinal(probe.t2) > Ordinal(probe.t1) /\ SecOfDay(probe.t1) = SecOfDay(probe.t2)
    /\ Ordinal(probe.t1) > Ordinal(probe.sd)
    /\ probe.hours1.num > 0

====
